---- MODULE Spec2Model ----
(***************************************************************************)
(* Model of the Strava dashboard (src/app.py): the cache-or-fetch pipeline *)
(* of main / cargar_datos_desde_cache / cargar_datos_desde_api, and the    *)
(* period aggregation agregar_resample.                                    *)
(*                                                                         *)
(* Conventions.  Distances, durations and paces held in a DataFrame are    *)
(* integers counting hundredths (the code rounds them to 2 decimals).  An  *)
(* optional value is <<>> (None / NaN) or <<v>>.  A long list of equal     *)
(* consecutive items is kept as one block [.. , n |-> count], so that a    *)
(* page of 200 activities is one value.                                    *)
(***************************************************************************)
EXTENDS Integers, Sequences, FiniteSets, TLC

VARIABLES
    pc,           \* position of the script run
    reload,       \* st.button('Recargar datos desde Strava') of this run
    env,          \* the credential variables that os.getenv finds
    cache,        \* the file cached_activities.csv
    df,           \* main's df
    tokenReqs,    \* POSTs sent to the token endpoint in this run
    actReqs,      \* params of the GETs sent to the activities endpoint
    resps,        \* the responses to those GETs, in order
    actividades,  \* the list accumulated by the fetch loop
    page,         \* the loop's page counter
    errors,       \* the st.error messages of this run
    cacheRead,    \* cargar_datos_desde_cache was called in this run
    cache0,       \* the cache file as this run found it
    escritura,    \* how to_csv ended in this run: "none", "ok" or "raised"
    rdf,          \* agregar_resample: argument df
    periodo,      \* agregar_resample: argument periodo
    rout,         \* agregar_resample: returned frame
    rpc           \* agregar_resample: called or not

vars == <<pc, reload, env, cache, df, tokenReqs, actReqs, resps, actividades,
          page, errors, cacheRead, cache0, escritura, rdf, periodo, rout, rpc>>

pipeVars == <<pc, reload, env, cache, df, tokenReqs, actReqs, resps,
              actividades, page, errors, cacheRead, cache0, escritura>>

resVars == <<rdf, periodo, rout, rpc>>

-----------------------------------------------------------------------------
(* Bounds and program constants *)

\* the athlete's history holds at most this many non-empty pages
MaxPages == 2

\* the length of a page that is not full
ShortPage == 1

\* params={'per_page': 200, ...}
PerPage == 200

\* agregar_resample is applied to frames of at most this many rows
MaxRecs == 2

-----------------------------------------------------------------------------
(* Values *)

NA == <<>>

Some(v) == <<v>>

\* len() of a list or frame kept as blocks
RECURSIVE Count(_)
Count(blocks) ==
    IF blocks = <<>> THEN 0 ELSE Head(blocks).n + Count(Tail(blocks))

\* round(x, 2) of x = a / b (a >= 0, b > 0), counted in hundredths when a is:
\* Python rounds half to even
RoundDiv(a, b) ==
    LET q == a \div b
        r == a % b
    IN  IF 2 * r < b THEN q
        ELSE IF 2 * r > b THEN q + 1
        ELSE IF q % 2 = 0 THEN q ELSE q + 1

Credentials == {"STRAVA_CLIENT_ID", "STRAVA_CLIENT_SECRET", "STRAVA_REFRESH_TOKEN"}

\* activities as the endpoint returns them: distance in metres, moving_time in
\* seconds, start_date as <<day, second of the day>>
RawActs ==
    { [type |-> "Run",  distance |-> 5000,  moving_time |-> 1500,
       start_date |-> <<10, 27000>>,
       average_heartrate |-> Some(150), average_cadence |-> Some(80)],
      [type |-> "Run",  distance |-> 0,     moving_time |-> 600,
       start_date |-> <<11, 64800>>,
       average_heartrate |-> NA, average_cadence |-> NA],
      [type |-> "Ride", distance |-> 20000, moving_time |-> 3600,
       start_date |-> <<12, 36000>>,
       average_heartrate |-> Some(130), average_cadence |-> NA] }

Columns == <<"Fecha", "Distancia (km)", "Tiempo (min)", "Pace promedio (min/km)",
             "Pulsaciones promedio", "Cadencia promedio">>

None == [kind |-> "None", columns |-> <<>>, rows |-> <<>>]

Absent == [kind |-> "absent", header |-> <<>>, lines |-> <<>>]

-----------------------------------------------------------------------------
(* cargar_datos_desde_api: the record transformation *)

\* one dict of `data`
Fila(act) ==
    [ Fecha       |-> act.start_date[1],
      Distancia   |-> RoundDiv(act.distance * 100, 1000),
      Tiempo      |-> RoundDiv(act.moving_time * 100, 60),
      Pace        |-> IF act.distance > 0 /\ act.moving_time > 0
                      THEN Some(RoundDiv(act.moving_time * 1000 * 100,
                                         60 * act.distance))
                      ELSE NA,
      Pulsaciones |-> act.average_heartrate,
      Cadencia    |-> act.average_cadence ]

\* pd.DataFrame(data): a frame built from no dict has no column
DataFrame(rows) ==
    [kind |-> "df", columns |-> IF rows = <<>> THEN <<>> ELSE Columns,
     rows |-> rows]

IsRun(b) == b.act.type = "Run"

Transformar(acts) ==
    LET actividades_run == SelectSeq(acts, IsRun)
    IN  DataFrame([i \in 1..Len(actividades_run) |->
                     [rec |-> Fila(actividades_run[i].act),
                      n   |-> actividades_run[i].n]])

-----------------------------------------------------------------------------
(* The cache file *)

\* the text of a cell: a date as YYYY-MM-DD, a number by its digits, a
\* missing value as the empty string
CellDate(d) == <<"date", d>>

CellNum(opt) == IF opt = NA THEN <<>> ELSE <<"num", opt[1]>>

CsvLine(rec) ==
    [ Fecha       |-> CellDate(rec.Fecha),
      Distancia   |-> CellNum(Some(rec.Distancia)),
      Tiempo      |-> CellNum(Some(rec.Tiempo)),
      Pace        |-> CellNum(rec.Pace),
      Pulsaciones |-> CellNum(rec.Pulsaciones),
      Cadencia    |-> CellNum(rec.Cadencia) ]

\* df.to_csv('cached_activities.csv', index=False): the file is rewritten
\* from the frame alone
ToCsv(frame) ==
    [kind |-> "file", header |-> frame.columns,
     lines |-> [i \in 1..Len(frame.rows) |->
                  [rec |-> CsvLine(frame.rows[i].rec), n |-> frame.rows[i].n]]]

\* a file opened for writing and never written
Truncated == [kind |-> "file", header |-> <<>>, lines |-> <<>>]

ParseNum(cell) == IF cell = <<>> THEN NA ELSE Some(cell[2])

\* pd.read_csv, then pd.to_datetime on the Fecha column
ParseLine(line) ==
    [ Fecha       |-> line.Fecha[2],
      Distancia   |-> ParseNum(line.Distancia)[1],
      Tiempo      |-> ParseNum(line.Tiempo)[1],
      Pace        |-> ParseNum(line.Pace),
      Pulsaciones |-> ParseNum(line.Pulsaciones),
      Cadencia    |-> ParseNum(line.Cadencia) ]

\* read_csv raises EmptyDataError on a file without a header line
CacheRaises(file) == file.kind = "file" /\ file.header = <<>>

\* what cargar_datos_desde_cache returns
CargarCache(file) ==
    IF file.kind = "absent" \/ CacheRaises(file) THEN None
    ELSE [kind |-> "df", columns |-> file.header,
          rows |-> [i \in 1..Len(file.lines) |->
                      [rec |-> ParseLine(file.lines[i].rec),
                       n   |-> file.lines[i].n]]]

-----------------------------------------------------------------------------
(* The calendar: day 0 is 2023-01-01, a Sunday *)

IsLeap(y) == (y % 4 = 0 /\ y % 100 # 0) \/ y % 400 = 0

DaysInMonth(y, m) ==
    IF m = 2 THEN (IF IsLeap(y) THEN 29 ELSE 28)
    ELSE IF m \in {4, 6, 9, 11} THEN 30 ELSE 31

RECURSIVE MonthStart(_, _)
MonthStart(y, m) ==
    IF m = 1
    THEN (IF y = 2023 THEN 0 ELSE MonthStart(y - 1, 12) + DaysInMonth(y - 1, 12))
    ELSE MonthStart(y, m - 1) + DaysInMonth(y, m - 1)

MonthEnd(y, m) == MonthStart(y, m) + DaysInMonth(y, m) - 1

RECURSIVE YearFrom(_, _)
YearFrom(y, d) == IF d <= MonthEnd(y, 12) THEN y ELSE YearFrom(y + 1, d)

YearOf(d) == YearFrom(2023, d)

MonthOf(d) == CHOOSE m \in 1..12 : MonthStart(YearOf(d), m) <= d /\ d <= MonthEnd(YearOf(d), m)

\* Monday is 0
Weekday(d) == (d + 6) % 7

-----------------------------------------------------------------------------
(* agregar_resample *)

Periodos == {"Por actividad", "Diario", "Semanal", "Mensual", "Trimestral", "Anual"}

mapping(p) ==
    CASE p = "Diario"     -> "D"
      [] p = "Semanal"    -> "W-MON"
      [] p = "Mensual"    -> "M"
      [] p = "Trimestral" -> "Q"
      [] p = "Anual"      -> "Y"

\* the label of the bin a day falls in: the day itself for D; for the other
\* rules the bin is closed and labelled on its right end, which is the
\* Monday, month end, quarter end or year end on or after the day
BinLabel(freq, d) ==
    CASE freq = "D"     -> d
      [] freq = "W-MON" -> d + ((7 - Weekday(d)) % 7)
      [] freq = "M"     -> MonthEnd(YearOf(d), MonthOf(d))
      [] freq = "Q"     -> MonthEnd(YearOf(d), 3 * ((MonthOf(d) - 1) \div 3) + 3)
      [] freq = "Y"     -> MonthEnd(YearOf(d), 12)

\* the right end of the bin before the one labelled L
PrevEdge(freq, L) ==
    CASE freq = "D"     -> L - 1
      [] freq = "W-MON" -> L - 7
      [] freq = "M"     -> MonthStart(YearOf(L), MonthOf(L)) - 1
      [] freq = "Q"     -> MonthStart(YearOf(L), MonthOf(L) - 2) - 1
      [] freq = "Y"     -> MonthStart(YearOf(L), 1) - 1

\* the regular grid of bin labels from the first to the last one: the labels
\* of the calendar rules one after the other, those of the rules of fixed
\* length (1 day, 7 days) by their rank
RECURSIVE GridFrom(_, _, _)
GridFrom(freq, first, last) ==
    IF first > last THEN <<>>
    ELSE <<first>> \o GridFrom(freq, BinLabel(freq, first + 1), last)

Grid(freq, first, last) ==
    IF freq \in {"D", "W-MON"}
    THEN LET step == BinLabel(freq, first + 1) - first
         IN  [i \in 1..((last - first) \div step + 1) |-> first + step * (i - 1)]
    ELSE GridFrom(freq, first, last)

RECURSIVE MinFecha(_)
MinFecha(rows) ==
    IF Len(rows) = 1 THEN rows[1].rec.Fecha
    ELSE LET m == MinFecha(Tail(rows))
         IN  IF rows[1].rec.Fecha < m THEN rows[1].rec.Fecha ELSE m

RECURSIVE MaxFecha(_)
MaxFecha(rows) ==
    IF Len(rows) = 1 THEN rows[1].rec.Fecha
    ELSE LET m == MaxFecha(Tail(rows))
         IN  IF rows[1].rec.Fecha > m THEN rows[1].rec.Fecha ELSE m

RECURSIVE GCD(_, _)
GCD(a, b) == IF b = 0 THEN a ELSE GCD(b, a % b)

\* the float a / b, kept exact as a reduced fraction <<numerator, denominator>>:
\* 0 / 0 is NaN, a / 0 is inf
Div(a, b) ==
    IF b = 0 THEN (IF a = 0 THEN NA ELSE <<1, 0>>)
    ELSE <<a \div GCD(a, b), b \div GCD(a, b)>>

\* sum of <<value, multiplicity>> pairs
RECURSIVE SumPairs(_)
SumPairs(ps) ==
    IF ps = <<>> THEN 0 ELSE Head(ps)[1] * Head(ps)[2] + SumPairs(Tail(ps))

RECURSIVE CountPairs(_)
CountPairs(ps) ==
    IF ps = <<>> THEN 0 ELSE Head(ps)[2] + CountPairs(Tail(ps))

\* 'sum' of a column without missing values
AggSum(ps) == SumPairs(ps)

IsDefined(p) == p[1] # NA

Unwrap(ps) == [i \in 1..Len(ps) |-> <<ps[i][1][1], ps[i][2]>>]

\* 'mean' of a column: missing values are skipped, and the mean of none is NaN
AggMean(ps) ==
    LET defined == Unwrap(SelectSeq(ps, IsDefined))
    IN  Div(SumPairs(defined), CountPairs(defined))

DistanciaCol(rows) == [i \in 1..Len(rows) |-> <<rows[i].rec.Distancia, rows[i].n>>]

TiempoCol(rows) == [i \in 1..Len(rows) |-> <<rows[i].rec.Tiempo, rows[i].n>>]

PaceCol(rows) == [i \in 1..Len(rows) |-> <<rows[i].rec.Pace, rows[i].n>>]

PulsacionesCol(rows) == [i \in 1..Len(rows) |-> <<rows[i].rec.Pulsaciones, rows[i].n>>]

CadenciaCol(rows) == [i \in 1..Len(rows) |-> <<rows[i].rec.Cadencia, rows[i].n>>]

\* the rows that resample() puts in the bin labelled L
BinRows(rows, freq, L) ==
    LET InBin(b) == PrevEdge(freq, L) < b.rec.Fecha /\ b.rec.Fecha <= L
    IN  SelectSeq(rows, InBin)

\* groupby semantics: only the bins that hold a row
BinsPoblados(rows, freq) ==
    LET Poblado(L) == BinRows(rows, freq, L) # <<>>
    IN  IF rows = <<>> THEN <<>>
        ELSE SelectSeq(Grid(freq, BinLabel(freq, MinFecha(rows)),
                            BinLabel(freq, MaxFecha(rows))), Poblado)

\* the bins resample() makes for the rows
Bins(rows, freq) ==
    IF rows = <<>> THEN <<>>
    ELSE Grid(freq, BinLabel(freq, MinFecha(rows)), BinLabel(freq, MaxFecha(rows)))

\* the aggregated row with the pace column taken as the mean of the rows' paces
\* (which are held in hundredths)
FilaPaceMedio(bin, L) ==
    LET defined == Unwrap(SelectSeq(PaceCol(bin), IsDefined))
    IN  [ Fecha       |-> L,
          Distancia   |-> AggSum(DistanciaCol(bin)),
          Tiempo      |-> AggSum(TiempoCol(bin)),
          Pulsaciones |-> AggMean(PulsacionesCol(bin)),
          Cadencia    |-> AggMean(CadenciaCol(bin)),
          Pace        |-> Div(SumPairs(defined), 100 * CountPairs(defined)) ]

\* .agg({...}) of one bin, then the recomputed pace column
FilaResampled(bin, L) ==
    LET distancia == AggSum(DistanciaCol(bin))
        tiempo    == AggSum(TiempoCol(bin))
    IN  [ Fecha       |-> L,
          Distancia   |-> distancia,
          Tiempo      |-> tiempo,
          Pulsaciones |-> AggMean(PulsacionesCol(bin)),
          Cadencia    |-> AggMean(CadenciaCol(bin)),
          Pace        |-> Div(tiempo, distancia) ]

\* df.set_index('Fecha').resample(rule).agg({...}).reset_index()
Resampled(rows, freq) ==
    LET labels == Bins(rows, freq)
    IN  [i \in 1..Len(labels) |->
           [rec |-> FilaResampled(BinRows(rows, freq, labels[i]), labels[i]),
            n   |-> 1]]

ResampledColumns == <<"Fecha", "Distancia (km)", "Tiempo (min)", "Pulsaciones promedio",
                      "Cadencia promedio", "Pace promedio (min/km)">>

agregar_resample(frame, p) ==
    IF p = "Por actividad" THEN frame
    ELSE [kind |-> "df", columns |-> ResampledColumns,
          rows |-> Resampled(frame.rows, mapping(p))]

-----------------------------------------------------------------------------
(* The two endpoints, as the program sees them *)

\* requests.post(token url, data=...): a field whose value is None is not
\* sent.  The endpoint grants a token only to a complete request; the call
\* can also raise (timeout, connection error, a body that is not JSON).
TokenResponses(fields) ==
    {"no_token", "raises"} \cup
    (IF Credentials \subseteq fields THEN {"token"} ELSE {})

\* a page: empty, or one block of at most per_page equal activities
Bodies(per_page) ==
    {<<>>} \cup
    { <<[act |-> a, n |-> k]>> :
        a \in RawActs, k \in {j \in {ShortPage, PerPage} : j <= per_page} }

\* requests.get(activities url, params=...): a 200 with a page of the
\* history (which ends after MaxPages pages), another status, or a timeout
ActivityResponses(params) ==
    { [kind |-> "http", status |-> 200, body |-> b] :
        b \in IF params.page <= MaxPages
               THEN Bodies(params.per_page) ELSE {<<>>} }
    \cup { [kind |-> "http", status |-> st, body |-> <<>>] : st \in {429, 500} }
    \cup { [kind |-> "timeout", status |-> 0, body |-> <<>>] }

-----------------------------------------------------------------------------
(* The script: main, cargar_datos_desde_cache, cargar_datos_desde_api *)

Params(p) == [per_page |-> PerPage, page |-> p]

\* actividades.extend(data)
Extend(acts, data) == acts \o data

\* page += 1
NextPage(p) == p + 1

\* the response ends the while loop by break
Breaks(r) == r.kind = "http" /\ (r.status # 200 \/ r.body = <<>>)

\* a main that tries the cache first whether or not the button was pressed
DestinoCache(button) == "cache"

\* main: the button sends the run to the API, no button to the cache
Destino(button) == IF button THEN "api" ELSE "cache"

\* a main that does not fall back on the API
TrasCacheSinApi(frame) == "check"

\* main: a cache load that returned None is followed by the API
TrasCache(frame) == IF frame = None THEN "api" ELSE "check"

\* a st.button press (or not) starts main
Main ==
    /\ pc = "main"
    /\ \E b \in BOOLEAN :
         /\ reload' = b
         /\ pc' = Destino(b)
    /\ UNCHANGED <<env, cache, df, tokenReqs, actReqs, resps, actividades,
                   page, errors, cacheRead, cache0, escritura>>
    /\ UNCHANGED resVars

\* a cache load that removes the file it could not parse
CargarDatosDesdeCacheBorrando ==
    /\ pc = "cache"
    /\ cacheRead' = TRUE
    /\ df' = CargarCache(cache)
    /\ errors' = IF CacheRaises(cache) THEN errors \cup {"cache"} ELSE errors
    /\ cache' = IF CacheRaises(cache) THEN Absent ELSE cache
    /\ pc' = TrasCache(df')
    /\ UNCHANGED <<reload, env, tokenReqs, actReqs, resps, actividades,
                   page, cache0, escritura>>
    /\ UNCHANGED resVars

CargarDatosDesdeCache ==
    /\ pc = "cache"
    /\ cacheRead' = TRUE
    /\ df' = CargarCache(cache)
    /\ errors' = IF CacheRaises(cache) THEN errors \cup {"cache"} ELSE errors
    /\ pc' = TrasCache(df')
    /\ UNCHANGED <<reload, env, cache, tokenReqs, actReqs, resps, actividades,
                   page, cache0, escritura>>
    /\ UNCHANGED resVars

\* cargar_datos_desde_api up to the loop: the token request
ObtenerToken ==
    /\ pc = "api"
    /\ tokenReqs' = tokenReqs + 1
    /\ \E r \in TokenResponses(env) :
         \/ /\ r = "raises"
            /\ errors' = errors \cup {"api"}
            /\ df' = None
            /\ pc' = "check"
            /\ UNCHANGED <<actividades, page>>
         \/ /\ r = "no_token"
            /\ errors' = errors \cup {"token"}
            /\ df' = None
            /\ pc' = "check"
            /\ UNCHANGED <<actividades, page>>
         \/ /\ r = "token"
            /\ actividades' = <<>>
            /\ page' = 1
            /\ pc' = "fetch"
            /\ UNCHANGED <<errors, df>>
    /\ UNCHANGED <<reload, env, cache, actReqs, resps, cacheRead, cache0,
                   escritura>>
    /\ UNCHANGED resVars

\* one iteration of the while loop
PedirPagina ==
    /\ pc = "fetch"
    /\ actReqs' = Append(actReqs, Params(page))
    /\ \E r \in ActivityResponses(Params(page)) :
         /\ resps' = Append(resps, r)
         /\ \/ /\ r.kind = "timeout"
               /\ errors' = errors \cup {"api"}
               /\ df' = None
               /\ pc' = "check"
               /\ UNCHANGED <<actividades, page>>
            \/ /\ Breaks(r)
               /\ pc' = "save"
               /\ UNCHANGED <<actividades, page, errors, df>>
            \/ /\ r.kind = "http" /\ ~Breaks(r)
               /\ actividades' = Extend(actividades, r.body)
               /\ page' = NextPage(page)
               /\ UNCHANGED <<pc, errors, df>>
    /\ UNCHANGED <<reload, env, cache, tokenReqs, cacheRead, cache0, escritura>>
    /\ UNCHANGED resVars

\* the rest of cargar_datos_desde_api: transformation, to_csv, return.
\* to_csv can raise, before it opens the file or after it has emptied it.
GuardarCache ==
    /\ pc = "save"
    /\ LET frame == Transformar(actividades)
       IN  \/ /\ cache' = ToCsv(frame)
              /\ escritura' = "ok"
              /\ df' = frame
              /\ UNCHANGED errors
           \/ /\ cache' \in {cache, Truncated}
              /\ escritura' = "raised"
              /\ df' = None
              /\ errors' = errors \cup {"api"}
    /\ pc' = "check"
    /\ UNCHANGED <<reload, env, tokenReqs, actReqs, resps, actividades, page,
                   cacheRead, cache0>>
    /\ UNCHANGED resVars

\* main: if df is None
Comprobar ==
    /\ pc = "check"
    /\ errors' = IF df = None THEN errors \cup {"sin_datos"} ELSE errors
    /\ pc' = "done"
    /\ UNCHANGED <<reload, env, cache, df, tokenReqs, actReqs, resps,
                   actividades, page, cacheRead, cache0, escritura>>
    /\ UNCHANGED resVars

\* the next run of the script
Rerun ==
    /\ pc = "done"
    /\ pc' = "main"
    /\ env' \in SUBSET Credentials
    /\ reload' = FALSE
    /\ df' = None
    /\ tokenReqs' = 0
    /\ actReqs' = <<>>
    /\ resps' = <<>>
    /\ actividades' = <<>>
    /\ page' = 1
    /\ errors' = {}
    /\ cacheRead' = FALSE
    /\ cache0' = cache
    /\ escritura' = "none"
    /\ UNCHANGED cache
    /\ UNCHANGED resVars

ResIdle ==
    /\ rdf = None
    /\ periodo = "Por actividad"
    /\ rout = None
    /\ rpc = "idle"

Init ==
    /\ pc = "main"
    /\ reload = FALSE
    /\ env \in SUBSET Credentials
    /\ cache = Absent
    /\ df = None
    /\ tokenReqs = 0
    /\ actReqs = <<>>
    /\ resps = <<>>
    /\ actividades = <<>>
    /\ page = 1
    /\ errors = {}
    /\ cacheRead = FALSE
    /\ cache0 = Absent
    /\ escritura = "none"
    /\ ResIdle

Next ==
    \/ Main
    \/ CargarDatosDesdeCache
    \/ ObtenerToken
    \/ PedirPagina
    \/ GuardarCache
    \/ Comprobar
    \/ Rerun

Spec == Init /\ [][Next]_vars

-----------------------------------------------------------------------------
(* agregar_resample applied to the frames main can pass to it *)

\* the runs of the history: <<day, distance, moving_time, heart rate, cadence>>
\* on 2023-12-31 (Sunday), 2024-01-01 (Monday), 2024-01-16, 2024-08-20 and
\* 2025-02-01
ResActs ==
    { [type |-> "Run", distance |-> s[2], moving_time |-> s[3],
       start_date |-> <<s[1], 25200>>,
       average_heartrate |-> s[4], average_cadence |-> s[5]] :
        s \in { <<364, 5000, 1500, Some(150), Some(80)>>,
                <<365, 10000, 2400, Some(160), NA>>,
                <<365, 0, 600, NA, NA>>,
                <<380, 5000, 1500, Some(150), Some(80)>>,
                <<380, 10000, 2400, Some(160), NA>>,
                <<597, 10000, 2400, Some(160), NA>>,
                <<597, 0, 600, NA, NA>>,
                <<762, 5000, 1500, Some(150), Some(80)>>,
                <<762, 0, 600, NA, NA>> } }

SeqsUpTo(S, k) == UNION { [1..j -> S] : j \in 0..k }

\* df_filtrado: the rows of a transformed fetch that the date filter keeps
ResFrames ==
    { [kind |-> "df", columns |-> Columns,
       rows |-> Transformar([i \in 1..Len(acts) |-> [act |-> acts[i], n |-> 1]]).rows] :
        acts \in SeqsUpTo(ResActs, MaxRecs) }

PipeIdle ==
    /\ pc = "main"
    /\ reload = FALSE
    /\ env = Credentials
    /\ cache = Absent
    /\ df = None
    /\ tokenReqs = 0
    /\ actReqs = <<>>
    /\ resps = <<>>
    /\ actividades = <<>>
    /\ page = 1
    /\ errors = {}
    /\ cacheRead = FALSE
    /\ cache0 = Absent
    /\ escritura = "none"

InitResample ==
    /\ PipeIdle
    /\ rdf \in ResFrames
    /\ periodo \in Periodos
    /\ rout = None
    /\ rpc = "call"

AgregarResample ==
    /\ rpc = "call"
    /\ rout' = agregar_resample(rdf, periodo)
    /\ rpc' = "done"
    /\ UNCHANGED <<rdf, periodo>>
    /\ UNCHANGED pipeVars

NextResample == AgregarResample

SpecResample == InitResample /\ [][NextResample]_vars

-----------------------------------------------------------------------------
(* Properties of agregar_resample (checked under SpecResample) *)

RECURSIVE SumOver(_, _)
SumOver(S, f) ==
    IF S = {} THEN 0
    ELSE LET x == CHOOSE y \in S : TRUE IN f[x] + SumOver(S \ {x}, f)

Resampleado == rpc = "done" /\ periodo # "Por actividad"

\* the argument rows whose date lies in the calendar period labelled L
Miembros(L) ==
    { i \in 1..Len(rdf.rows) : BinLabel(mapping(periodo), rdf.rows[i].rec.Fecha) = L }

SumDistancia(S) ==
    SumOver(S, [i \in 1..Len(rdf.rows) |-> rdf.rows[i].rec.Distancia * rdf.rows[i].n])

SumTiempo(S) ==
    SumOver(S, [i \in 1..Len(rdf.rows) |-> rdf.rows[i].rec.Tiempo * rdf.rows[i].n])

\* C1: for every period other than 'Por actividad' and every emitted bucket
\* whose summed distance is positive, the bucket's pace is the sum of the
\* durations of the bucket's records divided by the sum of their distances
\* (pace * sum of distances = sum of durations), not the mean of their paces.
C1_PaceFromSums ==
    Resampleado =>
        \A k \in 1..Len(rout.rows) :
            LET row == rout.rows[k].rec
                S   == Miembros(row.Fecha)
            IN  SumDistancia(S) > 0 =>
                    /\ row.Pace # NA
                    /\ row.Pace[2] > 0
                    /\ row.Pace[1] * SumDistancia(S) = row.Pace[2] * SumTiempo(S)

\* the spec's scenario: 5 km in 25 min (pace 5.00) and 10 km in 40 min (pace
\* 4.00) in one week give 65/15 = 13/3, where the mean of the paces is 4.50
C1_Witness ==
    /\ rpc = "done"
    /\ periodo = "Semanal"
    /\ Len(rdf.rows) = 2
    /\ {rdf.rows[1].rec.Pace, rdf.rows[2].rec.Pace} = {Some(500), Some(400)}
    /\ Len(rout.rows) = 1
    /\ rout.rows[1].rec.Distancia = 1500
    /\ rout.rows[1].rec.Tiempo = 6500
    /\ rout.rows[1].rec.Pace = <<13, 3>>

\* C4 as claimed: a bucket is emitted only if at least one record falls in its
\* calendar period.
C4_NoEmptyBucket ==
    Resampleado =>
        \A k \in 1..Len(rout.rows) : Miembros(rout.rows[k].rec.Fecha) # {}

Fechas == { rdf.rows[i].rec.Fecha : i \in 1..Len(rdf.rows) }

\* C4 as amended: the emitted buckets are the calendar periods from the one
\* of the earliest record to the one of the latest record, one after the
\* other without a hole, whether or not a record falls in them; a bucket
\* without record has distance 0, duration 0 and undefined pace and means.
C4_BucketsCoverTheSpan ==
    Resampleado =>
        IF rdf.rows = <<>> THEN rout.rows = <<>>
        ELSE LET freq  == mapping(periodo)
                 n     == Len(rout.rows)
                 L(k)  == rout.rows[k].rec.Fecha
                 first == CHOOSE d \in Fechas : \A e \in Fechas : d <= e
                 last  == CHOOSE d \in Fechas : \A e \in Fechas : d >= e
             IN  /\ n >= 1
                 /\ PrevEdge(freq, L(1)) < first /\ first <= L(1)
                 /\ PrevEdge(freq, L(n)) < last /\ last <= L(n)
                 /\ \A k \in 1..n : BinLabel(freq, L(k)) = L(k)
                 /\ \A k \in 1..(n - 1) : PrevEdge(freq, L(k + 1)) = L(k)
                 /\ \A k \in 1..n :
                        Miembros(L(k)) = {} =>
                            /\ rout.rows[k].rec.Distancia = 0
                            /\ rout.rows[k].rec.Tiempo = 0
                            /\ rout.rows[k].rec.Pace = NA
                            /\ rout.rows[k].rec.Pulsaciones = NA
                            /\ rout.rows[k].rec.Cadencia = NA

\* a month without record between two months with records is emitted
C4_Witness ==
    /\ rpc = "done"
    /\ periodo = "Mensual"
    /\ \E k \in 2..(Len(rout.rows) - 1) :
         /\ Miembros(rout.rows[k].rec.Fecha) = {}
         /\ Miembros(rout.rows[k - 1].rec.Fecha) # {}
         /\ rout.rows[k].rec.Distancia = 0

-----------------------------------------------------------------------------
(* Properties of the cache-or-fetch pipeline (checked under Spec) *)

Ended == pc \in {"check", "done"}

LastResp == resps[Len(resps)]

\* the while loop was left by break
LoopEnded == resps # <<>> /\ Breaks(LastResp)

\* cargar_datos_desde_api was called and returned None
LiveFailed == tokenReqs > 0 /\ errors \cap {"token", "api"} # {}

RECURSIVE ConcatBodies(_)
ConcatBodies(rs) ==
    IF rs = <<>> THEN <<>> ELSE Head(rs).body \o ConcatBodies(Tail(rs))

RECURSIVE SumLens(_)
SumLens(rs) ==
    IF rs = <<>> THEN 0 ELSE Count(Head(rs).body) + SumLens(Tail(rs))

\* the fetch loop by itself: pages 1, 2, 3, ... of 200 are requested in
\* order, every page before the last is a 200 with records, the last is an
\* empty 200 or another status, and the list holds the earlier pages' records
\* in order
FetchLoopInOrder ==
    LoopEnded =>
        /\ Len(actReqs) = Len(resps)
        /\ \A i \in 1..Len(actReqs) : actReqs[i] = [per_page |-> 200, page |-> i]
        /\ \A i \in 1..(Len(resps) - 1) :
              resps[i].kind = "http" /\ resps[i].status = 200 /\ resps[i].body # <<>>
        /\ actividades = ConcatBodies(SubSeq(resps, 1, Len(resps) - 1))
        /\ Count(actividades) = SumLens(SubSeq(resps, 1, Len(resps) - 1))

\* C2: the loop asks for pages 1, 2, 3, ... of 200 and stops at the first
\* empty 200 or non-2xx page; the fetch then holds the concatenation of the
\* earlier pages, no error is raised, and the pipeline yields a dataset.
C2_FailSoftFetchYieldsDataset ==
    /\ FetchLoopInOrder
    /\ (Ended /\ LoopEnded) =>
          /\ "api" \notin errors
          /\ df # None
          /\ df = Transformar(actividades)

\* C3: in a run without reload the cache is consulted first; a cache that
\* loads is used and no request is sent; a cache that is absent or cannot be
\* parsed is followed by the live fetch, whose result is used; only a failure
\* of the live fetch ends the run without a dataset.
C3_CacheFirst ==
    /\ (~reload /\ tokenReqs > 0) => (cacheRead /\ CargarCache(cache0) = None)
    /\ (pc = "done" /\ ~reload) =>
          /\ cacheRead
          /\ IF CargarCache(cache0) # None
             THEN /\ df = CargarCache(cache0)
                  /\ tokenReqs = 0
                  /\ actReqs = <<>>
             ELSE /\ tokenReqs = 1
                  /\ df # None => (df = Transformar(actividades) /\ escritura = "ok")
                  /\ df = None => LiveFailed

\* a cache file that cannot be parsed, then a live fetch that gives the dataset
C3_Witness ==
    /\ pc = "done"
    /\ ~reload
    /\ CacheRaises(cache0)
    /\ "cache" \in errors
    /\ tokenReqs = 1
    /\ df # None

\* C5: a timeout of a page request is handled like a non-2xx response: the
\* records of the earlier pages are returned as the dataset, without error.
C5_TimeoutIsFailSoft ==
    (Ended /\ resps # <<>> /\ LastResp.kind = "timeout") =>
        /\ "api" \notin errors
        /\ df # None
        /\ df = Transformar(actividades)

\* C6: a failure to write the cache after a successful fetch is not fatal:
\* the normalized dataset is still returned.
C6_CacheWriteFailureNonFatal ==
    (Ended /\ escritura = "raised") =>
        /\ df # None
        /\ df = Transformar(actividades)

\* C7: with any of the three credentials missing, no request is sent to the
\* token endpoint and none to the activities endpoint.
C7_NoRequestWithoutCredentials ==
    env # Credentials => (tokenReqs = 0 /\ actReqs = <<>>)

\* C8 as claimed: whenever the live fetch yields no dataset and a loadable
\* cache exists, the pipeline yields the cached dataset, also after a reload
\* request.
C8_CacheIsFallback ==
    (pc = "done" /\ LiveFailed /\ CargarCache(cache) # None) =>
        df = CargarCache(cache)

\* C8 as amended: the cache stands in for the live fetch only in a run
\* without reload request, where a loadable cache is used and no request is
\* sent; a run with a reload request never consults the cache, and yields no
\* dataset when its live fetch fails, whatever the cache holds.
C8_CacheOnlyWithoutReload ==
    pc = "done" =>
        /\ reload =>
              /\ ~cacheRead
              /\ tokenReqs = 1
              /\ LiveFailed => df = None
        /\ (~reload /\ CargarCache(cache0) # None) =>
              /\ cacheRead
              /\ tokenReqs = 0
              /\ df = CargarCache(cache0)

\* a reload whose live fetch failed while a loadable cache is on disk
C8_Witness ==
    /\ pc = "done"
    /\ reload
    /\ LiveFailed
    /\ df = None
    /\ CargarCache(cache) # None

\* C9: after a live fetch that returns a dataset D, the cache file holds the
\* records of D and nothing else, and the next cache load returns D.
C9_SavedCacheLoadsAsD ==
    (Ended /\ escritura = "ok") =>
        /\ df # None
        /\ Count(cache.lines) = Count(df.rows)
        /\ CargarCache(cache) = df

\* C10: the cache file changes only in the last step of a live fetch, after
\* the frame was built: while to_csv has not been called in a run (a run
\* served from the cache, a run aborted for want of a token or by an
\* exception before the write) the file is as the run found it, and to_csv
\* is called only once the token was obtained and the loop was left by break.
C10_CacheWrittenOnlyBySave ==
    /\ escritura = "none" => cache = cache0
    /\ escritura # "none" => (Ended /\ tokenReqs = 1 /\ LoopEnded)
    /\ escritura = "ok" => (df = Transformar(actividades) /\ cache = ToCsv(df))
    /\ (escritura = "raised" /\ cache # cache0) => cache = Truncated

\* a live fetch aborted by a timeout after a page was read, the cache intact
C10_Witness ==
    /\ pc = "done"
    /\ reload
    /\ actividades # <<>>
    /\ LastResp.kind = "timeout"
    /\ df = None
    /\ cache0 # Absent
    /\ cache = cache0
    /\ CargarCache(cache) # None

====
